---------------------------- MODULE Spec2Model ----------------------------
(***************************************************************************)
(* Todos example on Immutable.js state: the reducers, the selector         *)
(* getVisibleTodos and the connect() bindings of VisibleTodoList and       *)
(* FilterLink.                                                             *)
(*                                                                         *)
(* Immutable values are modelled with their identity: every Record and     *)
(* every List carries the reference (`ref`) it was allocated with, so that *)
(* `a === b` of the source is `a.ref = b.ref` here.  A value is never      *)
(* changed once allocated; an update allocates a value with a fresh ref.   *)
(***************************************************************************)
EXTENDS Integers, Sequences, FiniteSets, TLC

VARIABLES
    store,          \* the snapshot held by the redux store (index.js:10)
    prev,           \* the snapshot the last dispatch was reduced from
    lastAction,     \* the action of the last dispatch
    nextTodoId,     \* the id the addTodo action creator hands out next
    nextRef,        \* the next unused reference
    dispatched,     \* number of dispatches so far
    vtl,            \* the connect() instance around TodoList
    links,          \* the connect() instances around Link, one per filter
    selection,      \* results of getVisibleTodos applied to store.todos
    todoKind,       \* which of the two Todo components of Todo.js is mounted
    view,           \* what TodoList has rendered: the mounted Todo items
    held,           \* a snapshot a reader got from store.getState() and kept
    scenario,       \* how many dispatches of the end-to-end scenario were made
    bench,          \* the position of window.benchmark in its three loops
    reduction       \* the dispatch in progress: its action and temporaryState

vars == <<store, prev, lastAction, nextTodoId, nextRef, dispatched, vtl, links,
          selection, todoKind, view, held, scenario, bench, reduction>>

----------------------------------------------------------------------------
(* Bounds *)

MaxTodos == 3

MaxDispatches == 4

\* the largest count window.benchmark is called with
MaxCount == 6

\* the longest todo List any specification builds
MaxLen == IF MaxCount > MaxTodos THEN MaxCount ELSE MaxTodos

Texts == {"a", "b"}

Filters == {"SHOW_ALL", "SHOW_ACTIVE", "SHOW_COMPLETED"}

\* a filter value outside the enum, for the selector's default branch
AnyFilters == Filters \cup {"BOGUS", "SHOW_DONE"}

\* action types the reducers do not know
UnknownTypes == {"@@redux/INIT", "REMOVE_TODO"}

\* ids a TOGGLE_TODO may carry; MaxTodos itself never names a record
ToggleIds == 0..MaxTodos

\* references one dispatch may allocate: a List, one Record per position,
\* a snapshot, the List of a filtered selection, and what a render allocates
RefStride == 2 * MaxLen + 4

----------------------------------------------------------------------------
(* Immutable values *)

\* List(): the empty List is one shared value
EMPTY_LIST == [ref |-> 0, items |-> <<>>]

\* List(seq): a List built from a sequence; the empty one is EMPTY_LIST.
\* map and filter of an Immutable 3.x List build their result this way,
\* whether or not an element changed or was dropped.
ListOf(items, r) == IF items = <<>> THEN EMPTY_LIST ELSE [ref |-> r, items |-> items]

\* a TodoRecord whose completed defaults to true
TodoRecordCompleted(id, text, r) == [ref |-> r, id |-> id, text |-> text, completed |-> TRUE]

\* TodoRecord({id, text}): completed takes its default, false
TodoRecord(id, text, r) == [ref |-> r, id |-> id, text |-> text, completed |-> FALSE]

\* InitialState(): the snapshot Record with its defaults
InitialState == [ref |-> 1, todos |-> EMPTY_LIST, visibilityFilter |-> "SHOW_ALL"]

----------------------------------------------------------------------------
(* Action creators *)

addTodo(text) == [type |-> "ADD_TODO", id |-> nextTodoId, text |-> text]

toggleTodo(id) == [type |-> "TOGGLE_TODO", id |-> id]

setVisibilityFilter(filter) == [type |-> "SET_VISIBILITY_FILTER", filter |-> filter]

----------------------------------------------------------------------------
(* Reducers *)

\* todo that leaves out the id of a new Record, which keeps its default
todoDropsId(state, action, r) ==
    CASE action.type = "ADD_TODO" -> TodoRecord(0 - 1, action.text, r)
      [] action.type = "TOGGLE_TODO" ->
            IF state.id # action.id
            THEN state
            ELSE [state EXCEPT !.ref = r, !.completed = ~state.completed]
      [] OTHER -> state

\* todo that negates the flag of the Record it was given, in place
todoInPlace(state, action, r) ==
    CASE action.type = "ADD_TODO" -> TodoRecord(action.id, action.text, r)
      [] action.type = "TOGGLE_TODO" ->
            IF state.id # action.id
            THEN state
            ELSE [state EXCEPT !.completed = ~state.completed]
      [] OTHER -> state

\* todo that builds the toggled Record anew from its id alone, so that
\* its text falls back to the default
todoClearsText(state, action, r) ==
    CASE action.type = "ADD_TODO" -> TodoRecord(action.id, action.text, r)
      [] action.type = "TOGGLE_TODO" ->
            IF state.id # action.id
            THEN state
            ELSE [TodoRecord(state.id, "", r) EXCEPT !.completed = ~state.completed]
      [] OTHER -> state

\* todo that marks the Record completed instead of negating its flag
todoCompletes(state, action, r) ==
    CASE action.type = "ADD_TODO" -> TodoRecord(action.id, action.text, r)
      [] action.type = "TOGGLE_TODO" ->
            IF state.id # action.id
            THEN state
            ELSE [state EXCEPT !.ref = r, !.completed = TRUE]
      [] OTHER -> state

\* todo that returns a copy of every Record it does not toggle
todoCopies(state, action, r) ==
    CASE action.type = "ADD_TODO" -> TodoRecord(action.id, action.text, r)
      [] action.type = "TOGGLE_TODO" ->
            IF state.id # action.id
            THEN [state EXCEPT !.ref = r]
            ELSE [state EXCEPT !.ref = r, !.completed = ~state.completed]
      [] OTHER -> state

\* todo without the id comparison: every Record it is given is toggled
todoNoIdCheck(state, action, r) ==
    CASE action.type = "ADD_TODO" -> TodoRecord(action.id, action.text, r)
      [] action.type = "TOGGLE_TODO" ->
            [state EXCEPT !.ref = r, !.completed = ~state.completed]
      [] OTHER -> state

\* nested reducer: one TodoRecord; r is the reference a new Record gets
todo(state, action, r) ==
    CASE action.type = "ADD_TODO" -> TodoRecord(action.id, action.text, r)
      [] action.type = "TOGGLE_TODO" ->
            IF state.id # action.id
            THEN state
            ELSE [state EXCEPT !.ref = r, !.completed = ~state.completed]
      [] OTHER -> state

\* List.push: a List one longer, the old elements shared
ListPush(list, v, r) == [ref |-> r, items |-> Append(list.items, v)]

\* todos with unshift for push: the new Record goes to the front
todosUnshift(state, action, r) ==
    CASE action.type = "ADD_TODO" ->
            [ref |-> r, items |-> <<todo(<<>>, action, r + 1)>> \o state.items]
      [] action.type = "TOGGLE_TODO" ->
            ListOf([i \in 1..Len(state.items) |-> todo(state.items[i], action, r + i)], r)
      [] OTHER -> state

\* todos whose default branch returns a copy of the List
todosDefaultCopies(state, action, r) ==
    CASE action.type = "ADD_TODO" -> ListPush(state, todo(<<>>, action, r + 1), r)
      [] action.type = "TOGGLE_TODO" ->
            ListOf([i \in 1..Len(state.items) |-> todo(state.items[i], action, r + i)], r)
      [] OTHER -> ListOf(state.items, r)

\* reduces the `todos` List; r is the reference of the resulting List and
\* r + i the reference of a Record allocated for position i
todos(state, action, r) ==
    CASE action.type = "ADD_TODO" -> ListPush(state, todo(<<>>, action, r + 1), r)
      [] action.type = "TOGGLE_TODO" ->
            ListOf([i \in 1..Len(state.items) |-> todo(state.items[i], action, r + i)], r)
      [] OTHER -> state

\* reduces the filter string
visibilityFilter(state, action) ==
    IF action.type = "SET_VISIBILITY_FILTER" THEN action.filter ELSE state

\* a root reducer that rebuilds the snapshot and its List on every change
todoAppRebuilds(state, action, r) ==
    LET nextTodos == todos(state.todos, action, r)
        nextFilter == visibilityFilter(state.visibilityFilter, action)
    IN  IF nextTodos.ref = state.todos.ref /\ nextFilter = state.visibilityFilter
        THEN state
        ELSE [ref |-> r + MaxLen + 1, todos |-> ListOf(nextTodos.items, r),
              visibilityFilter |-> nextFilter]

\* combineReducers: every key is reduced and set on the Record within
\* withMutations, which returns the Record itself when no set changed it
todoApp(state, action, r) ==
    LET nextTodos == todos(state.todos, action, r)
        nextFilter == visibilityFilter(state.visibilityFilter, action)
    IN  IF nextTodos.ref = state.todos.ref /\ nextFilter = state.visibilityFilter
        THEN state
        ELSE [ref |-> r + MaxLen + 1, todos |-> nextTodos, visibilityFilter |-> nextFilter]

----------------------------------------------------------------------------
(* Selector *)

RECURSIVE FilterSeqTakeWhile(_, _)
\* a filter that stops at the first element that does not pass
FilterSeqTakeWhile(s, flag) ==
    IF s = <<>> THEN <<>>
    ELSE IF Head(s).completed = flag
         THEN <<Head(s)>> \o FilterSeqTakeWhile(Tail(s), flag)
         ELSE <<>>

RECURSIVE FilterSeq(_, _)
\* the elements of s whose completed flag is `flag`, in order
FilterSeq(s, flag) ==
    IF s = <<>> THEN <<>>
    ELSE IF Head(s).completed = flag
         THEN <<Head(s)>> \o FilterSeq(Tail(s), flag)
         ELSE FilterSeq(Tail(s), flag)

\* List.filter: a List built from the elements that pass
ListFilter(list, flag, r) == ListOf(FilterSeq(list.items, flag), r)

Return(v) == [kind |-> "return", value |-> v]

Throw(msg) == [kind |-> "throw", message |-> msg]

\* getVisibleTodos with the two predicates exchanged
getVisibleTodosSwapped(list, filter, r) ==
    CASE filter = "SHOW_ALL" -> Return(list)
      [] filter = "SHOW_COMPLETED" -> Return(ListFilter(list, FALSE, r))
      [] filter = "SHOW_ACTIVE" -> Return(ListFilter(list, TRUE, r))
      [] OTHER -> Throw("Unknown filter: " \o filter)

\* getVisibleTodos that copies the List for SHOW_ALL
getVisibleTodosCopyAll(list, filter, r) ==
    CASE filter = "SHOW_ALL" -> Return(ListOf(list.items, r))
      [] filter = "SHOW_COMPLETED" -> Return(ListFilter(list, TRUE, r))
      [] filter = "SHOW_ACTIVE" -> Return(ListFilter(list, FALSE, r))
      [] OTHER -> Throw("Unknown filter: " \o filter)

\* getVisibleTodos whose default branch returns the todos
getVisibleTodosDefaultAll(list, filter, r) ==
    CASE filter = "SHOW_ALL" -> Return(list)
      [] filter = "SHOW_COMPLETED" -> Return(ListFilter(list, TRUE, r))
      [] filter = "SHOW_ACTIVE" -> Return(ListFilter(list, FALSE, r))
      [] OTHER -> Return(list)

getVisibleTodos(list, filter, r) ==
    CASE filter = "SHOW_ALL" -> Return(list)
      [] filter = "SHOW_COMPLETED" -> Return(ListFilter(list, TRUE, r))
      [] filter = "SHOW_ACTIVE" -> Return(ListFilter(list, FALSE, r))
      [] OTHER -> Throw("Unknown filter: " \o filter)

----------------------------------------------------------------------------
(* connect() *)

\* VisibleTodoList's mapStateToProps
mapStateToProps(state, r) ==
    [todos |-> getVisibleTodos(state.todos, state.visibilityFilter, r)]

\* FilterLink's mapStateToProps
linkMapStateToProps(state, ownProps) ==
    [active |-> ownProps.filter = state.visibilityFilter]

\* a comparison of snapshots that never finds them equal
areStatesEqualNever(next, last) == FALSE

\* areStatesEqual, by default strict equality of the two snapshots
areStatesEqual(next, last) == next.ref = last.ref

\* a comparison of two {todos} objects that looks into the Lists: equal
\* when they hold the same records in the same order
areStatePropsEqualElementwise(next, last) ==
    /\ next.todos.kind = last.todos.kind
    /\ IF next.todos.kind = "return"
       THEN /\ Len(next.todos.value.items) = Len(last.todos.value.items)
            /\ \A i \in 1..Len(next.todos.value.items) :
                  next.todos.value.items[i].ref = last.todos.value.items[i].ref
       ELSE next.todos.message = last.todos.message

\* shallowEqual of two {todos} objects: the two values compared with ===
areStatePropsEqual(next, last) ==
    /\ next.todos.kind = last.todos.kind
    /\ IF next.todos.kind = "return"
       THEN next.todos.value.ref = last.todos.value.ref
       ELSE next.todos.message = last.todos.message

\* the first run of a connector's selector, at mount
Mounted(state, ownProps, stateProps) ==
    [state |-> state, ownProps |-> ownProps, stateProps |-> stateProps,
     prevProps |-> stateProps, ran |-> TRUE, notified |-> TRUE]

\* a later run of VisibleTodoList's selector with unchanged own props
vtlOnStateChange(c, state, r) ==
    IF areStatesEqual(state, c.state)
    THEN [c EXCEPT !.prevProps = c.stateProps, !.ran = FALSE, !.notified = FALSE]
    ELSE LET next == mapStateToProps(state, r)
         IN  [c EXCEPT !.state = state, !.stateProps = next,
                       !.prevProps = c.stateProps, !.ran = TRUE,
                       !.notified = ~areStatePropsEqual(next, c.stateProps)]

\* a run of a FilterLink's selector that passes new props on every change
\* of the snapshot
linkOnStateChangeAlways(c, state, ownProps) ==
    IF areStatesEqual(state, c.state)
    THEN [c EXCEPT !.prevProps = c.stateProps, !.ran = FALSE, !.notified = FALSE]
    ELSE LET next == linkMapStateToProps(state, ownProps)
         IN  [c EXCEPT !.state = state, !.stateProps = next,
                       !.prevProps = c.stateProps, !.ran = TRUE,
                       !.notified = TRUE]

\* a later run of one FilterLink's selector with unchanged own props
linkOnStateChange(c, state, ownProps) ==
    IF areStatesEqual(state, c.state)
    THEN [c EXCEPT !.prevProps = c.stateProps, !.ran = FALSE, !.notified = FALSE]
    ELSE LET next == linkMapStateToProps(state, ownProps)
         IN  [c EXCEPT !.state = state, !.stateProps = next,
                       !.prevProps = c.stateProps, !.ran = TRUE,
                       !.notified = next.active # c.stateProps.active]

\* the number of parameters each mapStateToProps declares
mapStateToPropsLength == 1

linkMapStateToPropsLength == 2

\* connect re-runs a mapStateToProps for new own props only when the
\* function declares more than the state parameter
dependsOnOwnProps(length) == length # 1

\* shallowEqual of two own-props objects whose values are primitives
areOwnPropsEqual(next, last) == next = last

\* a run of VisibleTodoList's selector that treats its mapStateToProps as
\* depending on own props
vtlOnReceivePropsReruns(c, state, ownProps, r) ==
    IF areOwnPropsEqual(ownProps, c.ownProps)
    THEN vtlOnStateChange(c, state, r)
    ELSE [c EXCEPT !.state = state, !.ownProps = ownProps,
                   !.stateProps = mapStateToProps(state, r),
                   !.prevProps = c.stateProps, !.ran = TRUE, !.notified = TRUE]

\* a run of VisibleTodoList's selector when its parent renders it with
\* `ownProps`: new own props always give TodoList a new props object, and
\* mapStateToProps is run again only if the snapshot changed too
vtlOnReceiveProps(c, state, ownProps, r) ==
    IF areOwnPropsEqual(ownProps, c.ownProps)
    THEN vtlOnStateChange(c, state, r)
    ELSE IF ~areStatesEqual(state, c.state) \/ dependsOnOwnProps(mapStateToPropsLength)
         THEN [c EXCEPT !.state = state, !.ownProps = ownProps,
                        !.stateProps = mapStateToProps(state, r),
                        !.prevProps = c.stateProps, !.ran = TRUE, !.notified = TRUE]
         ELSE [c EXCEPT !.ownProps = ownProps, !.prevProps = c.stateProps,
                        !.ran = FALSE, !.notified = TRUE]

\* a run of one FilterLink's selector when its parent renders it with
\* `ownProps`
linkOnReceiveProps(c, state, ownProps) ==
    IF areOwnPropsEqual(ownProps, c.ownProps)
    THEN linkOnStateChange(c, state, ownProps)
    ELSE IF ~areStatesEqual(state, c.state) \/ dependsOnOwnProps(linkMapStateToPropsLength)
         THEN [c EXCEPT !.state = state, !.ownProps = ownProps,
                        !.stateProps = linkMapStateToProps(state, ownProps),
                        !.prevProps = c.stateProps, !.ran = TRUE, !.notified = TRUE]
         ELSE [c EXCEPT !.ownProps = ownProps, !.prevProps = c.stateProps,
                        !.ran = FALSE, !.notified = TRUE]

\* VisibleTodoList's mapDispatchToProps, an object: connect binds
\* toggleTodo to dispatch once, when the connector is created
mapDispatchToProps == [onTodoClick |-> [kind |-> "bound", creator |-> "toggleTodo"]]

\* the props connect hands to TodoList
mergedProps(c) ==
    [todos |-> c.stateProps.todos.value, onTodoClick |-> mapDispatchToProps.onTodoClick]

----------------------------------------------------------------------------
(* TodoList and Todo *)

TodoKinds == {"onlyUpdateForKeys", "PureComponent"}

\* a TodoList that wraps the callback in a new arrow function per item on
\* every render
TodoListClosures(props, r) ==
    [i \in 1..Len(props.todos.items) |->
        [key |-> props.todos.items[i].id,
         todo |-> props.todos.items[i],
         onClick |-> [kind |-> "closure", ref |-> r + i]]]

\* TodoList: one <Todo key todo onClick> element per visible record
TodoList(props, r) ==
    [i \in 1..Len(props.todos.items) |->
        [key |-> props.todos.items[i].id,
         todo |-> props.todos.items[i],
         onClick |-> props.onTodoClick]]

\* a Todo whose gate never lets a mounted item be drawn again
shouldComponentUpdateNever(kind, props, nextProps) == FALSE

\* a Todo without a gate: it is drawn on every render of its parent
shouldComponentUpdateAlways(kind, props, nextProps) == TRUE

\* the gate of a mounted Todo: onlyUpdateForKeys(['todo']) compares the
\* todo prop, PureComponent compares every prop, each with ===
shouldComponentUpdate(kind, props, nextProps) ==
    IF kind = "onlyUpdateForKeys"
    THEN props.todo.ref # nextProps.todo.ref
    ELSE props.todo.ref # nextProps.todo.ref \/ props.onClick # nextProps.onClick

Keys(items) == {items[i].key : i \in 1..Len(items)}

ItemOf(items, key) == items[CHOOSE i \in 1..Len(items) : items[i].key = key]

\* a render of TodoList over the mounted items: an element whose key is
\* mounted goes through the item's gate, any other element mounts a new
\* item, and the items whose key is gone are unmounted
Reconcile(old, elements, kind) ==
    [items |->
        [i \in 1..Len(elements) |->
            LET e == elements[i]
                nextProps == [todo |-> e.todo, onClick |-> e.onClick]
            IN  IF e.key \in Keys(old.items)
                THEN LET item == ItemOf(old.items, e.key)
                     IN  [key |-> e.key, props |-> nextProps,
                          drawn |-> IF shouldComponentUpdate(kind, item.props, nextProps)
                                    THEN e.todo ELSE item.drawn]
                ELSE [key |-> e.key, props |-> nextProps, drawn |-> e.todo]],
     decisions |->
        [i \in 1..Len(elements) |->
            LET e == elements[i]
                nextProps == [todo |-> e.todo, onClick |-> e.onClick]
            IN  IF e.key \in Keys(old.items)
                THEN LET item == ItemOf(old.items, e.key)
                     IN  [key |-> e.key, kind |-> "update",
                          redraw |-> shouldComponentUpdate(kind, item.props, nextProps),
                          last |-> item.drawn, passed |-> e.todo,
                          lastClick |-> item.props.onClick, click |-> e.onClick]
                ELSE [key |-> e.key, kind |-> "mount", redraw |-> TRUE,
                      last |-> e.todo, passed |-> e.todo,
                      lastClick |-> e.onClick, click |-> e.onClick]],
     was |-> [i \in 1..Len(old.items) |-> old.items[i].key],
     rendered |-> TRUE]

\* a step in which connect passed TodoList no new props: nothing is drawn
NotRendered(old) ==
    [items |-> old.items, decisions |-> <<>>,
     was |-> [i \in 1..Len(old.items) |-> old.items[i].key], rendered |-> FALSE]

\* TodoList after a run of its connector; when mapStateToProps threw, the
\* connector's render throws the error again and nothing is drawn
Render(old, c, kind, r) ==
    IF c.stateProps.todos.kind = "throw" THEN NotRendered(old)
    ELSE IF c.notified THEN Reconcile(old, TodoList(mergedProps(c), r), kind)
    ELSE NotRendered(old)

\* the event object React calls a DOM handler with: it is === to no id
SyntheticEvent == 0 - 2

\* what the <li> of a Todo calls props.onClick with when it is clicked:
\* the first Todo hands props.onClick to the <li> as its handler, the
\* second calls it with the id of its record
todoClickArgument(kind, props) ==
    IF kind = "onlyUpdateForKeys" THEN SyntheticEvent ELSE props.todo.id

\* the onTodoClick of mapDispatchToProps: toggleTodo bound to dispatch
onTodoClick(arg) == toggleTodo(arg)

\* a Link that draws the <a> with its handler whatever `active` is
LinkHasOnClickAlways(props) == TRUE

\* Link: <span> without a handler when active, <a onClick> otherwise
LinkHasOnClick(props) == ~props.active

\* a FilterLink whose onClick dispatches another string than its filter
linkOnClickPrefixed(ownProps) == setVisibilityFilter("FILTER_" \o ownProps.filter)

\* the onClick of FilterLink's mapDispatchToProps
linkOnClick(ownProps) == setVisibilityFilter(ownProps.filter)

NoView == [items |-> <<>>, decisions |-> <<>>, was |-> <<>>, rendered |-> FALSE]

----------------------------------------------------------------------------
(* The store and its subscribers *)

NotRun == [kind |-> "none"]

Idle == [phase |-> "idle", count |-> 0, i |-> 0]

\* no dispatch in progress, none made yet
NoReduction ==
    [phase |-> "idle", action |-> [type |-> "@@redux/INIT"], before |-> InitialState,
     temporaryState |-> InitialState, r |-> 0]

\* the views as first rendered over `state`
MountOver(state) ==
    /\ vtl = Mounted(state, [own |-> 0], mapStateToProps(state, InitialState.ref + 1))
    /\ links = [f \in Filters |->
                  Mounted(state, [filter |-> f],
                          linkMapStateToProps(state, [filter |-> f]))]
    /\ todoKind \in TodoKinds
    /\ view = Render(NoView, vtl, todoKind, InitialState.ref + 1)

Init ==
    /\ store = InitialState
    /\ prev = InitialState
    /\ lastAction = [type |-> "@@redux/INIT"]
    /\ nextTodoId = 0
    /\ nextRef = 3
    /\ dispatched = 0
    /\ MountOver(InitialState)
    /\ selection = [f \in AnyFilters |-> NotRun]
    /\ held = store
    /\ scenario = 0
    /\ bench = Idle
    /\ reduction = NoReduction

\* the end-to-end scenario: two todos added, the first toggled, the filter set
Scenario ==
    <<[type |-> "ADD_TODO", id |-> 0, text |-> "a"],
      [type |-> "ADD_TODO", id |-> 1, text |-> "b"],
      [type |-> "TOGGLE_TODO", id |-> 0],
      [type |-> "SET_VISIBILITY_FILTER", filter |-> "SHOW_COMPLETED"]>>

Off == 0 - 1

\* the scenario is followed as long as every dispatch since the store was
\* created is its next action
Advance(n, count, action) ==
    IF n = count /\ n < Len(Scenario) /\ action = Scenario[n + 1] THEN n + 1 ELSE Off

\* store.dispatch(action): the reduction, then every subscriber in turn,
\* and the render of what they passed new props to
dispatch(action) ==
    /\ LET next == todoApp(store, action, nextRef)
           c == vtlOnStateChange(vtl, next, nextRef + MaxLen + 2)
       IN  /\ store' = next
           /\ vtl' = c
           /\ links' = [f \in Filters |->
                          linkOnStateChange(links[f], next, links[f].ownProps)]
           /\ view' = Render(view, c, todoKind, nextRef + MaxLen + 3)
           /\ scenario' = Advance(scenario, dispatched, action)
    /\ prev' = store
    /\ lastAction' = action
    /\ nextRef' = nextRef + RefStride
    /\ dispatched' = dispatched + 1
    /\ UNCHANGED <<selection, todoKind, held, reduction>>

\* a dispatch within the bound of the model
Dispatch(action) ==
    /\ dispatched < MaxDispatches
    /\ dispatch(action)
    /\ UNCHANGED bench

AddTodo ==
    \E text \in Texts :
        /\ Len(store.todos.items) < MaxTodos
        /\ Dispatch(addTodo(text))
        /\ nextTodoId' = nextTodoId + 1

ToggleTodo ==
    \E id \in ToggleIds :
        /\ Dispatch(toggleTodo(id))
        /\ UNCHANGED nextTodoId

SetVisibilityFilter ==
    \E filter \in Filters :
        /\ Dispatch(setVisibilityFilter(filter))
        /\ UNCHANGED nextTodoId

UnknownAction ==
    \E type \in UnknownTypes :
        /\ Dispatch([type |-> type])
        /\ UNCHANGED nextTodoId

\* a reader keeps what store.getState() returns
GetState ==
    /\ held # store
    /\ held' = store
    /\ UNCHANGED <<store, prev, lastAction, nextTodoId, nextRef, dispatched, vtl, links,
                   selection, todoKind, view, scenario, bench, reduction>>

Next == AddTodo \/ ToggleTodo \/ SetVisibilityFilter \/ UnknownAction \/ GetState

Spec == Init /\ [][Next]_vars

----------------------------------------------------------------------------
(* The selector on its own: getVisibleTodos applied to the todos of a       *)
(* snapshot, with every filter value, the unknown ones included.            *)

\* a snapshot holding n todos with ids 0..n-1, as n ADD_TODO and some
\* TOGGLE_TODO dispatches leave it
SnapshotWith(n, texts, flags) ==
    [ref |-> MaxTodos + 4,
     todos |-> ListOf([i \in 1..n |-> [ref |-> i + 2, id |-> i - 1,
                                       text |-> texts[i], completed |-> flags[i]]],
                      MaxTodos + 3),
     visibilityFilter |-> "SHOW_ALL"]

InitSelect ==
    /\ \E n \in 0..MaxTodos :
         \E texts \in [1..n -> Texts], flags \in [1..n -> BOOLEAN] :
            /\ store = SnapshotWith(n, texts, flags)
            /\ nextTodoId = n
    /\ prev = store
    /\ lastAction = [type |-> "@@redux/INIT"]
    /\ nextRef = MaxTodos + 5
    /\ dispatched = 0
    /\ MountOver(store)
    /\ selection = [f \in AnyFilters |-> NotRun]
    /\ held = store
    /\ scenario = 0
    /\ bench = Idle
    /\ reduction = NoReduction

SelectVisible ==
    \E filter \in AnyFilters :
        /\ selection[filter] = NotRun
        /\ selection' = [selection EXCEPT ![filter] = getVisibleTodos(store.todos, filter, nextRef)]
        /\ nextRef' = nextRef + 1
        /\ UNCHANGED <<store, prev, lastAction, nextTodoId, dispatched, vtl, links,
                       todoKind, view, held, scenario, bench, reduction>>

NextSelect == SelectVisible

SpecSelect == InitSelect /\ [][NextSelect]_vars

----------------------------------------------------------------------------
(* window.benchmark(count) on a fresh store: count todos added, every       *)
(* second one toggled, then the three filters set in turn.                  *)

BenchFilters == <<"SHOW_ACTIVE", "SHOW_COMPLETED", "SHOW_ALL">>

\* the position after the loops whose condition no longer holds are left
Settle(b) ==
    LET b1 == IF b.phase = "add" /\ ~(b.i < b.count)
              THEN [b EXCEPT !.phase = "toggle", !.i = 0] ELSE b
        b2 == IF b1.phase = "toggle" /\ ~(b1.i < b1.count)
              THEN [b1 EXCEPT !.phase = "filter", !.i = 0] ELSE b1
    IN  IF b2.phase = "filter" /\ ~(b2.i < Len(BenchFilters))
        THEN [b2 EXCEPT !.phase = "done", !.i = 0] ELSE b2

InitBenchmark ==
    /\ store = InitialState
    /\ prev = InitialState
    /\ lastAction = [type |-> "@@redux/INIT"]
    /\ nextTodoId = 0
    /\ nextRef = 3
    /\ dispatched = 0
    /\ MountOver(InitialState)
    /\ selection = [f \in AnyFilters |-> NotRun]
    /\ held = store
    /\ scenario = 0
    /\ reduction = NoReduction
    /\ \E count \in 0..MaxCount :
          bench = Settle([phase |-> "add", count |-> count, i |-> 0])

\* for (let i = 0; i < count; i++) store.dispatch(actions.addTodo('test'))
BenchAdd ==
    /\ bench.phase = "add"
    /\ dispatch(addTodo("test"))
    /\ nextTodoId' = nextTodoId + 1
    /\ bench' = Settle([bench EXCEPT !.i = bench.i + 1])

\* for (let i = 0; i < count; i += 2) store.dispatch(actions.toggleTodo(i))
BenchToggle ==
    /\ bench.phase = "toggle"
    /\ dispatch(toggleTodo(bench.i))
    /\ bench' = Settle([bench EXCEPT !.i = bench.i + 2])
    /\ UNCHANGED nextTodoId

\* the three store.dispatch(actions.setVisibilityFilter(...)) in a row
BenchFilter ==
    /\ bench.phase = "filter"
    /\ dispatch(setVisibilityFilter(BenchFilters[bench.i + 1]))
    /\ bench' = Settle([bench EXCEPT !.i = bench.i + 1])
    /\ UNCHANGED nextTodoId

NextBenchmark == BenchAdd \/ BenchToggle \/ BenchFilter

SpecBenchmark == InitBenchmark /\ [][NextBenchmark]_vars

----------------------------------------------------------------------------
(* The connected views rendered again by their parents, with the same or    *)
(* with other own props, between dispatches.                                *)

MaxPropsDispatches == 2

OwnValues == 0..1

PropsAddTodo == dispatched < MaxPropsDispatches /\ AddTodo

PropsToggleTodo == dispatched < MaxPropsDispatches /\ ToggleTodo

PropsSetVisibilityFilter == dispatched < MaxPropsDispatches /\ SetVisibilityFilter

PropsUnknownAction == dispatched < MaxPropsDispatches /\ UnknownAction

\* <VisibleTodoList own={own} /> rendered by its parent
VtlReceiveProps ==
    \E own \in OwnValues :
        LET c == vtlOnReceiveProps(vtl, store, [own |-> own], nextRef)
        IN  /\ vtl' = c
            /\ view' = Render(view, c, todoKind, nextRef + 1)
            /\ nextRef' = IF c.ran THEN nextRef + RefStride ELSE nextRef
            /\ UNCHANGED <<store, prev, lastAction, nextTodoId, dispatched, links,
                           selection, todoKind, held, scenario, bench, reduction>>

\* the FilterLink whose parent passes it other props; the three links are
\* instances of the one connected component
Relinked == "SHOW_ACTIVE"

\* <FilterLink filter={filter}> in the place of that link, rendered by its
\* parent
LinkReceiveProps ==
    \E filter \in Filters :
        /\ links' = [links EXCEPT
                        ![Relinked] = linkOnReceiveProps(links[Relinked], store,
                                                         [filter |-> filter])]
        /\ UNCHANGED <<store, prev, lastAction, nextTodoId, nextRef, dispatched, vtl,
                       selection, todoKind, view, held, scenario, bench, reduction>>

NextProps ==
    \/ PropsAddTodo
    \/ PropsToggleTodo
    \/ PropsSetVisibilityFilter
    \/ PropsUnknownAction
    \/ VtlReceiveProps
    \/ LinkReceiveProps

SpecProps == Init /\ [][NextProps]_vars

----------------------------------------------------------------------------
(* store.dispatch taken apart: combineReducers reduces one key after the    *)
(* other into the temporaryState of withMutations, the store then replaces  *)
(* its snapshot, then the subscribers are called.  A reader may call        *)
(* store.getState() between any two of these steps.                         *)

MaxStepDispatches == 2

\* a set on the Record the reduction started from
temporaryStateSetInPlace(state, temporaryState, name, value) ==
    [state |-> [state EXCEPT ![name] = value],
     temporaryState |-> [temporaryState EXCEPT ![name] = value]]

\* temporaryState.set(reducerName, nextDomainState): withMutations works on
\* a copy of the Record, the Record the store holds is left as it is
temporaryStateSet(state, temporaryState, name, value) ==
    [state |-> state, temporaryState |-> [temporaryState EXCEPT ![name] = value]]

StepActions ==
    {addTodo(text) : text \in Texts} \cup {toggleTodo(id) : id \in ToggleIds}
        \cup {setVisibilityFilter(filter) : filter \in Filters}
        \cup {[type |-> type] : type \in UnknownTypes}

\* store.dispatch(action) is entered; no other dispatch is in progress
BeginDispatch ==
    \E action \in StepActions :
        /\ reduction.phase = "idle"
        /\ dispatched < MaxStepDispatches
        /\ action.type = "ADD_TODO" => Len(store.todos.items) < MaxTodos
        /\ reduction' = [phase |-> "todos", action |-> action, before |-> store,
                         temporaryState |-> store, r |-> nextRef]
        /\ nextTodoId' = IF action.type = "ADD_TODO" THEN nextTodoId + 1 ELSE nextTodoId
        /\ nextRef' = nextRef + RefStride
        /\ UNCHANGED <<store, prev, lastAction, dispatched, vtl, links, selection,
                       todoKind, view, held, scenario, bench>>

\* the key `todos` is reduced and set
ReduceTodos ==
    /\ reduction.phase = "todos"
    /\ LET set == temporaryStateSet(store, reduction.temporaryState, "todos",
                      todos(reduction.temporaryState.todos, reduction.action, reduction.r))
       IN  /\ store' = set.state
           /\ reduction' = [reduction EXCEPT !.phase = "visibilityFilter",
                                             !.temporaryState = set.temporaryState]
    /\ UNCHANGED <<prev, lastAction, nextTodoId, nextRef, dispatched, vtl, links,
                   selection, todoKind, view, held, scenario, bench>>

\* the key `visibilityFilter` is reduced and set
ReduceVisibilityFilter ==
    /\ reduction.phase = "visibilityFilter"
    /\ LET set == temporaryStateSet(store, reduction.temporaryState, "visibilityFilter",
                      visibilityFilter(reduction.temporaryState.visibilityFilter,
                                       reduction.action))
       IN  /\ store' = set.state
           /\ reduction' = [reduction EXCEPT !.phase = "commit",
                                             !.temporaryState = set.temporaryState]
    /\ UNCHANGED <<prev, lastAction, nextTodoId, nextRef, dispatched, vtl, links,
                   selection, todoKind, view, held, scenario, bench>>

\* withMutations returns the Record itself if no set altered the copy, a new
\* Record otherwise, and the store takes it as its snapshot
Commit ==
    /\ reduction.phase = "commit"
    /\ LET t == reduction.temporaryState
           b == reduction.before
       IN  store' = IF t.todos.ref = b.todos.ref /\ t.visibilityFilter = b.visibilityFilter
                    THEN store
                    ELSE [ref |-> reduction.r + MaxLen + 1, todos |-> t.todos,
                          visibilityFilter |-> t.visibilityFilter]
    /\ prev' = reduction.before
    /\ lastAction' = reduction.action
    /\ reduction' = [reduction EXCEPT !.phase = "notify"]
    /\ UNCHANGED <<nextTodoId, nextRef, dispatched, vtl, links, selection, todoKind,
                   view, held, scenario, bench>>

\* the subscribers are called in turn, each reads store.getState()
Notify ==
    /\ reduction.phase = "notify"
    /\ LET c == vtlOnStateChange(vtl, store, reduction.r + MaxLen + 2)
       IN  /\ vtl' = c
           /\ links' = [f \in Filters |->
                          linkOnStateChange(links[f], store, links[f].ownProps)]
           /\ view' = Render(view, c, todoKind, reduction.r + MaxLen + 3)
    /\ scenario' = Advance(scenario, dispatched, reduction.action)
    /\ dispatched' = dispatched + 1
    /\ reduction' = [reduction EXCEPT !.phase = "idle"]
    /\ UNCHANGED <<store, prev, lastAction, nextTodoId, nextRef, selection, todoKind,
                   held, bench>>

NextSteps ==
    \/ BeginDispatch
    \/ ReduceTodos
    \/ ReduceVisibilityFilter
    \/ Commit
    \/ Notify
    \/ GetState

\* a dispatch is synchronous code: once entered it is run to its end
SpecSteps ==
    /\ Init
    /\ [][NextSteps]_vars
    /\ WF_vars(ReduceTodos \/ ReduceVisibilityFilter \/ Commit \/ Notify)

----------------------------------------------------------------------------
(* The store driven from the page: todos are added, the displayed Todo      *)
(* items and the filter links are clicked.                                  *)

\* a click on the i-th displayed Todo
ClickTodoOn(i) ==
    /\ Dispatch(onTodoClick(todoClickArgument(todoKind, view.items[i].props)))
    /\ UNCHANGED nextTodoId

ClickTodo == \E i \in 1..Len(view.items) : ClickTodoOn(i)

\* a click on the link of the filter f, if it is drawn with a handler
ClickLinkOn(f) ==
    /\ LinkHasOnClick(links[f].stateProps)
    /\ Dispatch(linkOnClick(links[f].ownProps))
    /\ UNCHANGED nextTodoId

ClickLink == \E f \in Filters : ClickLinkOn(f)

NextClicks == AddTodo \/ ClickTodo \/ ClickLink

SpecClicks == Init /\ [][NextClicks]_vars

----------------------------------------------------------------------------
(* TOGGLE_TODO applied twice with the same id, to any snapshot within the   *)
(* bounds; `held` keeps the snapshot the two reductions started from.       *)

InitToggle ==
    /\ \E n \in 0..MaxTodos :
         \E texts \in [1..n -> Texts], flags \in [1..n -> BOOLEAN], filter \in Filters :
            /\ store = [SnapshotWith(n, texts, flags) EXCEPT !.visibilityFilter = filter]
            /\ nextTodoId = n
    /\ prev = store
    /\ lastAction = [type |-> "@@redux/INIT"]
    /\ nextRef = MaxTodos + 5
    /\ dispatched = 0
    /\ MountOver(store)
    /\ selection = [f \in AnyFilters |-> NotRun]
    /\ held = store
    /\ scenario = 0
    /\ bench = Idle
    /\ reduction = NoReduction

ToggleFirst ==
    \E id \in ToggleIds :
        /\ dispatched = 0
        /\ dispatch(toggleTodo(id))
        /\ UNCHANGED <<nextTodoId, bench>>

ToggleAgain ==
    /\ dispatched = 1
    /\ dispatch(toggleTodo(lastAction.id))
    /\ UNCHANGED <<nextTodoId, bench>>

NextToggle == ToggleFirst \/ ToggleAgain

SpecToggle == InitToggle /\ [][NextToggle]_vars

----------------------------------------------------------------------------
(* Properties of the reducers, stated on the last dispatch: `prev` is the   *)
(* snapshot S it was given, `lastAction` the action a and `store` the       *)
(* result reduce(S, a).                                                     *)

Recognized == {"ADD_TODO", "TOGGLE_TODO", "SET_VISIBILITY_FILTER"}

old == prev.todos.items

new == store.todos.items

\* the fields of a todo Record, without its identity
Fields(t) == [id |-> t.id, text |-> t.text, completed |-> t.completed]

\* two todo sequences hold equal todos in the same order
SameTodos(a, b) ==
    /\ Len(a) = Len(b)
    /\ \A i \in 1..Len(a) : Fields(a[i]) = Fields(b[i])

\* C1: a reduction that leaves the todos and the filter as they were
\* returns the snapshot it was given, and the List it was given, by
\* reference; TOGGLE_TODO with an id that matches no record and
\* SET_VISIBILITY_FILTER with the filter in force are such reductions.
C1_NoOpKeepsReference ==
    (SameTodos(new, old) /\ store.visibilityFilter = prev.visibilityFilter)
        => (store.ref = prev.ref /\ store.todos.ref = prev.todos.ref)

\* C2: an action of a type the reducers do not know returns the snapshot
\* it was given, by reference.
C2_UnknownActionIsIdentity ==
    (lastAction.type \notin Recognized) => (store.ref = prev.ref /\ store = prev)

C2_Witness ==
    /\ dispatched > 0
    /\ lastAction.type \in UnknownTypes
    /\ Len(old) > 0
    /\ prev.visibilityFilter # "SHOW_ALL"

\* C3: TOGGLE_TODO{id} keeps the length of the sequence; every record with
\* that id is replaced by a distinct record with the same id and text and
\* the completed flag negated, and every other position holds the identical
\* prior record.
C3_ToggleFrame ==
    (lastAction.type = "TOGGLE_TODO") =>
        /\ Len(new) = Len(old)
        /\ \A i \in 1..Len(old) :
              IF old[i].id = lastAction.id
              THEN /\ new[i].ref # old[i].ref
                   /\ new[i].ref \notin {old[j].ref : j \in 1..Len(old)}
                   /\ new[i].id = old[i].id
                   /\ new[i].text = old[i].text
                   /\ new[i].completed = ~old[i].completed
              ELSE new[i] = old[i]

C3_Witness ==
    /\ lastAction.type = "TOGGLE_TODO"
    /\ \E i, j \in 1..Len(old) :
          /\ old[i].id = lastAction.id
          /\ old[j].id # lastAction.id
          /\ old[i].completed
          /\ ~new[i].completed

\* C3, the case of no match: the elements are the identical prior records
C3_NoMatchWitness ==
    /\ lastAction.type = "TOGGLE_TODO"
    /\ Len(old) > 0
    /\ \A i \in 1..Len(old) : old[i].id # lastAction.id

\* C4: ADD_TODO{id, text} appends one record with that id and text and
\* completed = false; the records before it are the identical prior records
\* in the same order, and the filter is unchanged.
C4_AddAppends ==
    (lastAction.type = "ADD_TODO") =>
        /\ Len(new) = Len(old) + 1
        /\ Fields(new[Len(new)]) =
              [id |-> lastAction.id, text |-> lastAction.text, completed |-> FALSE]
        /\ \A i \in 1..Len(old) : new[i] = old[i]
        /\ store.visibilityFilter = prev.visibilityFilter

C4_Witness ==
    /\ lastAction.type = "ADD_TODO"
    /\ Len(old) > 0
    /\ old[1].completed
    /\ prev.visibilityFilter # "SHOW_ALL"

\* C5: SET_VISIBILITY_FILTER{f} sets the filter to f and keeps the todo
\* List it was given, by reference.
C5_SetFilterFrame ==
    (lastAction.type = "SET_VISIBILITY_FILTER") =>
        /\ store.visibilityFilter = lastAction.filter
        /\ store.todos.ref = prev.todos.ref
        /\ store.todos = prev.todos

C5_Witness ==
    /\ lastAction.type = "SET_VISIBILITY_FILTER"
    /\ lastAction.filter # prev.visibilityFilter
    /\ Len(old) > 0
    /\ store.ref # prev.ref

----------------------------------------------------------------------------
(* Properties of the binding layer *)

\* C10: after a dispatch that left the store's snapshot the identical
\* value, no connector has run its mapStateToProps and none has passed new
\* props to the view it wraps.
C10_NoOpSkipsSelection ==
    (dispatched > 0 /\ store.ref = prev.ref) =>
        /\ ~vtl.ran /\ ~vtl.notified
        /\ \A f \in Filters : ~links[f].ran /\ ~links[f].notified

C10_Witness ==
    /\ dispatched > 1
    /\ store.ref = prev.ref
    /\ lastAction.type \in Recognized
    /\ Len(store.todos.items) > 0
    /\ ~vtl.ran

----------------------------------------------------------------------------
(* Properties of the selector, stated on `selection`: T is the todo         *)
(* sequence getVisibleTodos was given and selection[f] what it gave for f.  *)

T == store.todos.items

\* the positions of T up to i whose completed flag is `flag`
Matching(i, flag) == {j \in 1..i : T[j].completed = flag}

\* R holds exactly the records of T whose completed flag is `flag`, each
\* once, in the order of T
IsSubsequenceOf(R, flag) ==
    /\ Len(R) = Cardinality(Matching(Len(T), flag))
    /\ \A i \in Matching(Len(T), flag) : R[Cardinality(Matching(i, flag))] = T[i]

FlagOf(filter) == filter = "SHOW_COMPLETED"

\* C6: for SHOW_ACTIVE and SHOW_COMPLETED getVisibleTodos returns the
\* order-preserving sub-sequence of the records whose completed flag is
\* false, respectively true: records of T, none omitted, none duplicated.
C6_FilterIsSubsequence ==
    \A f \in {"SHOW_ACTIVE", "SHOW_COMPLETED"} :
        (selection[f] # NotRun) =>
            /\ selection[f].kind = "return"
            /\ IsSubsequenceOf(selection[f].value.items, FlagOf(f))

C6_Witness ==
    /\ selection["SHOW_ACTIVE"] # NotRun
    /\ selection["SHOW_COMPLETED"] # NotRun
    /\ Len(T) >= 2
    /\ T[1].completed
    /\ ~T[2].completed
    /\ Len(selection["SHOW_ACTIVE"].value.items) = 1

\* C7: for SHOW_ALL getVisibleTodos returns the List it was given, by
\* reference.
C7_ShowAllIsIdentity ==
    (selection["SHOW_ALL"] # NotRun) =>
        /\ selection["SHOW_ALL"].kind = "return"
        /\ selection["SHOW_ALL"].value.ref = store.todos.ref
        /\ selection["SHOW_ALL"].value = store.todos

C7_Witness ==
    /\ selection["SHOW_ALL"] # NotRun
    /\ Len(T) >= 2
    /\ T[1].completed

RECURSIVE IsMergeOf(_, _, _)
\* s is a and b merged: each element of s is the next one of a or of b
IsMergeOf(s, a, b) ==
    IF s = <<>> THEN a = <<>> /\ b = <<>>
    ELSE \/ a # <<>> /\ Head(a) = Head(s) /\ IsMergeOf(Tail(s), Tail(a), b)
         \/ b # <<>> /\ Head(b) = Head(s) /\ IsMergeOf(Tail(s), a, Tail(b))

Refs(s) == {s[i].ref : i \in 1..Len(s)}

\* C8: the SHOW_ACTIVE and the SHOW_COMPLETED selections of one sequence
\* share no record, and merged by original position they give the sequence
\* back in its order.
C8_FilterPartition ==
    (selection["SHOW_ACTIVE"] # NotRun /\ selection["SHOW_COMPLETED"] # NotRun) =>
        LET A == selection["SHOW_ACTIVE"].value.items
            C == selection["SHOW_COMPLETED"].value.items
        IN  /\ Refs(A) \cap Refs(C) = {}
            /\ Refs(A) \cup Refs(C) = Refs(T)
            /\ Len(A) + Len(C) = Len(T)
            /\ IsMergeOf(T, A, C)

C8_Witness ==
    /\ selection["SHOW_ACTIVE"] # NotRun
    /\ selection["SHOW_COMPLETED"] # NotRun
    /\ Len(T) >= 2
    /\ ~T[1].completed
    /\ T[2].completed

\* C9: for a filter value outside SHOW_ALL, SHOW_ACTIVE and SHOW_COMPLETED
\* getVisibleTodos throws an error whose message carries that value, and
\* returns no list.
C9_UnknownFilterThrows ==
    \A f \in AnyFilters \ Filters :
        (selection[f] # NotRun) =>
            /\ selection[f].kind = "throw"
            /\ selection[f].message = "Unknown filter: " \o f
            /\ \A g \in AnyFilters \ {f} :
                  selection[g] # NotRun => selection[g] # selection[f]

C9_Witness ==
    /\ \A f \in AnyFilters \ Filters : selection[f] # NotRun
    /\ Len(T) >= 1

----------------------------------------------------------------------------
(* Properties of the binding layer and of the rendered list, stated on the  *)
(* last dispatch.                                                           *)

\* the list VisibleTodoList selected in the last dispatch and the one before
vis == vtl.stateProps.todos.value

visPrev == vtl.prevProps.todos.value

\* two sequences hold the same records, by reference, in the same order
SameRecords(a, b) ==
    /\ Len(a) = Len(b)
    /\ \A i \in 1..Len(a) : a[i].ref = b[i].ref

\* C11, as claimed: after a dispatch that changed the snapshot, TodoList is
\* given new props only if the selected list differs from the one before in
\* length or in some element compared by reference.  It is stated on the
\* dispatches that changed a todo or the filter, which leaves aside the
\* snapshots C1 is about.
C11_NotifiedOnlyIfElementsDiffer ==
    (/\ dispatched > 0
     /\ store.ref # prev.ref
     /\ ~(SameTodos(new, old) /\ store.visibilityFilter = prev.visibilityFilter)
     /\ vtl.notified)
        => ~SameRecords(vis.items, visPrev.items)

\* C11, amended: after a dispatch that changed the snapshot, TodoList is
\* given new props, and renders, exactly when the selected List is not the
\* identical List value selected before.
C11_NotifiedIffListReplaced ==
    (dispatched > 0 /\ store.ref # prev.ref) =>
        /\ vtl.ran
        /\ vtl.notified <=> (vis.ref # visPrev.ref)
        /\ view.rendered <=> vtl.notified

C11_Witness ==
    /\ lastAction.type = "ADD_TODO"
    /\ prev.visibilityFilter = "SHOW_COMPLETED"
    /\ store.ref # prev.ref
    /\ Len(vis.items) > 0
    /\ SameRecords(vis.items, visPrev.items)
    /\ vtl.notified

Updates == {i \in 1..Len(view.decisions) : view.decisions[i].kind = "update"}

\* C12: in a render of TodoList a mounted Todo item is redrawn exactly when
\* the todo record passed to it is not the identical record it was last
\* drawn with, for either definition of Todo.
C12_RedrawIffRecordReplaced ==
    \A i \in Updates :
        view.decisions[i].redraw <=> (view.decisions[i].passed.ref # view.decisions[i].last.ref)

C12_Witness ==
    /\ todoKind = "PureComponent"
    /\ view.rendered
    /\ \E i, j \in Updates : view.decisions[i].redraw /\ ~view.decisions[j].redraw

\* the last dispatch toggled a todo that was displayed
ToggledDisplayed ==
    /\ dispatched > 0
    /\ lastAction.type = "TOGGLE_TODO"
    /\ \E i \in 1..Len(view.was) : view.was[i] = lastAction.id

Redrawn == {i \in Updates : view.decisions[i].redraw}

\* C13, as claimed: toggling one of N displayed todos gives exactly one
\* redraw decision that is true, for the toggled item, and N - 1 false.
C13_ExactlyOneRedraw ==
    ToggledDisplayed =>
        /\ Cardinality(Redrawn) = 1
        /\ \A i \in Redrawn : view.decisions[i].key = lastAction.id
        /\ Cardinality(Updates \ Redrawn) = Len(view.was) - 1

\* C13, amended: toggling one of N displayed todos gives N - 1 redraw
\* decisions that are false, for the other items; under SHOW_ALL the
\* toggled item gets the one decision that is true, and under SHOW_ACTIVE
\* or SHOW_COMPLETED it leaves the list and no decision is true.
C13_OthersNotRedrawn ==
    ToggledDisplayed =>
        /\ view.rendered
        /\ Cardinality(Updates \ Redrawn) = Len(view.was) - 1
        /\ \A i \in Updates \ Redrawn : view.decisions[i].key # lastAction.id
        /\ \A i \in 1..Len(view.decisions) : view.decisions[i].kind = "update"
        /\ IF store.visibilityFilter = "SHOW_ALL"
           THEN /\ Cardinality(Redrawn) = 1
                /\ \A i \in Redrawn : view.decisions[i].key = lastAction.id
           ELSE /\ Redrawn = {}
                /\ lastAction.id \notin Keys(view.items)

C13_Witness ==
    /\ ToggledDisplayed
    /\ store.visibilityFilter = "SHOW_ALL"
    /\ Len(view.was) >= 3
    /\ Cardinality(Redrawn) = 1

\* C14: the click callback TodoList passes to a Todo item is the one
\* connect bound when VisibleTodoList was created, in every render; an
\* item is never passed a callback other than the one it already has.
C14_CallbackIsStable ==
    /\ \A i \in 1..Len(view.items) :
          view.items[i].props.onClick = mapDispatchToProps.onTodoClick
    /\ \A i \in 1..Len(view.decisions) :
          /\ view.decisions[i].click = mapDispatchToProps.onTodoClick
          /\ view.decisions[i].click = view.decisions[i].lastClick

C14_Witness ==
    /\ dispatched >= 3
    /\ view.rendered
    /\ Cardinality(Updates) >= 2

FieldsOf(items) == [i \in 1..Len(items) |-> Fields(items[i])]

Todo(id, text, completed) == [id |-> id, text |-> text, completed |-> completed]

\* C15: on a fresh store (no todos, SHOW_ALL), ADD_TODO "a" with id 0 and
\* ADD_TODO "b" with id 1 give [{0,a,false},{1,b,false}]; TOGGLE_TODO 0 then
\* gives [{0,a,true},{1,b,false}] with the second record the identical one;
\* SET_VISIBILITY_FILTER SHOW_COMPLETED then makes the visible list
\* [{0,a,true}].
C15_EndToEnd ==
    /\ (dispatched = 0) =>
          store.todos.items = <<>> /\ store.visibilityFilter = "SHOW_ALL"
    /\ (scenario = 2) =>
          FieldsOf(new) = <<Todo(0, "a", FALSE), Todo(1, "b", FALSE)>>
    /\ (scenario = 3) =>
          /\ FieldsOf(new) = <<Todo(0, "a", TRUE), Todo(1, "b", FALSE)>>
          /\ new[2].ref = old[2].ref
          /\ new[2] = old[2]
    /\ (scenario = 4) =>
          /\ FieldsOf(vis.items) = <<Todo(0, "a", TRUE)>>
          /\ FieldsOf([i \in 1..Len(view.items) |-> view.items[i].drawn])
                = <<Todo(0, "a", TRUE)>>

C15_Witness == scenario = 4

\* C16: the ids of the todo records of a snapshot are pairwise distinct.
C16_IdsDistinct ==
    \A i, j \in 1..Len(new) : new[i].id = new[j].id => i = j

C16_Witness ==
    /\ Len(new) >= 3
    /\ lastAction.type = "TOGGLE_TODO"
    /\ new[2].completed

\* C17: a snapshot a reader holds stays what it was: every value of it that
\* the store still refers to (the snapshot, its List, a record) is there
\* with the content the reader saw.
C17_HeldSnapshotUnchanged ==
    /\ held.ref = store.ref => held = store
    /\ held.todos.ref = store.todos.ref => held.todos = store.todos
    /\ \A i \in 1..Len(held.todos.items), j \in 1..Len(new) :
          held.todos.items[i].ref = new[j].ref => held.todos.items[i] = new[j]

C17_Witness ==
    /\ held.ref # store.ref
    /\ Len(held.todos.items) >= 2
    /\ held.visibilityFilter # store.visibilityFilter
    /\ \E i \in 1..Len(held.todos.items) : held.todos.items[i].ref = new[i].ref
    /\ \E i \in 1..Len(held.todos.items) :
          held.todos.items[i].completed # new[i].completed

\* C18: during window.benchmark on a fresh store no render is wasted: no
\* mounted Todo item is redrawn with the record it last drew, and no
\* filter Link is given new props while its active value is what it was.
C18_NoWastedRender ==
    (dispatched > 0) =>
        /\ \A i \in Updates :
              view.decisions[i].redraw =>
                  view.decisions[i].passed.ref # view.decisions[i].last.ref
        /\ \A f \in Filters :
              links[f].notified =>
                  links[f].stateProps.active # links[f].prevProps.active

C18_Witness ==
    /\ bench.phase = "done"
    /\ bench.count >= 4
    /\ dispatched = bench.count + (bench.count + 1) \div 2 + 3
    /\ Len(view.items) = bench.count
    /\ store.visibilityFilter = "SHOW_ALL"

\* C19 as stated: whenever a connected view is given other own props, its
\* mapStateToProps is run again, also when the snapshot is the one it
\* last saw.
C19_OwnPropsForceSelection ==
    [][/\ (vtl'.ownProps # vtl.ownProps) => vtl'.ran
       /\ \A f \in Filters :
             (links'[f].ownProps # links[f].ownProps) => links'[f].ran]_vars

\* C19: other own props with the snapshot last seen make FilterLink, whose
\* mapStateToProps takes (state, ownProps), run it again over the new own
\* props; VisibleTodoList, whose mapStateToProps takes (state) only, keeps
\* the todos it selected and only hands TodoList a new props object.
C19_OwnPropsForceSelectionIfDeclared ==
    [][/\ (vtl'.ownProps # vtl.ownProps) =>
             /\ vtl'.state.ref = vtl.state.ref
             /\ ~vtl'.ran
             /\ vtl'.stateProps = vtl.stateProps
             /\ vtl'.notified
             /\ view'.rendered
       /\ \A f \in Filters :
             (links'[f].ownProps # links[f].ownProps) =>
                 /\ links'[f].state.ref = links[f].state.ref
                 /\ links'[f].ran
                 /\ links'[f].stateProps.active =
                        (links'[f].ownProps.filter = store.visibilityFilter)
                 /\ links'[f].notified]_vars

\* after a dispatch that left the snapshot as it was, VisibleTodoList and
\* one FilterLink have been given other own props
C19_Witness ==
    /\ dispatched > 0
    /\ vtl.ownProps.own # 0
    /\ ~vtl.ran
    /\ vtl.notified
    /\ Len(vtl.stateProps.todos.value.items) > 0
    /\ \E f \in Filters :
          /\ links[f].ownProps.filter # f
          /\ links[f].ran
          /\ links[f].stateProps.active # links[f].prevProps.active
    /\ \E g \in Filters : ~links[g].ran

\* the snapshot the dispatch in progress, or the last one, leads to
After == todoApp(reduction.before, reduction.action, reduction.r)

\* the snapshots readers and subscribers got from store.getState()
Observed == {held, vtl.state} \cup {links[f].state : f \in Filters}

SnapshotsComplete ==
    /\ reduction.phase \in {"todos", "visibilityFilter", "commit"} =>
          store = reduction.before
    /\ reduction.phase \in {"notify", "idle"} => store = After
    /\ \A x \in Observed :
          /\ x.ref = reduction.before.ref => x = reduction.before
          /\ x.ref = After.ref => x = After
    /\ reduction.phase = "idle" => \A x \in Observed \ {held} : x = store

\* C20: dispatches are serialised: until the reduction of an action is
\* complete the store holds the whole snapshot from before it, from then on
\* the whole snapshot after it; what any reader or subscriber got from
\* getState is one of the two and never changes under its reference; and a
\* dispatch that was entered runs to its end.
C20_DispatchesSerialised ==
    /\ []SnapshotsComplete
    /\ (reduction.phase # "idle") ~> (reduction.phase = "idle")

\* the second action is reduced and the store has replaced its snapshot,
\* while a reader and the subscribers still hold the snapshot from before
C20_Witness ==
    /\ dispatched = 1
    /\ reduction.phase = "notify"
    /\ held = reduction.before
    /\ vtl.state = reduction.before
    /\ store.ref # held.ref
    /\ store = After

\* C21: a click on the displayed Todo of the record with id i dispatches
\* TOGGLE_TODO with that id, and the record with id i then has its
\* completed flag negated, whichever of the two Todo components is mounted.
C21_ClickTogglesItsRecord ==
    [][\A i \in 1..Len(view.items) :
          ClickTodoOn(i) =>
              /\ lastAction' = [type |-> "TOGGLE_TODO", id |-> view.items[i].key]
              /\ \E j \in 1..Len(store.todos.items) :
                    /\ store.todos.items[j].id = view.items[i].key
                    /\ store'.todos.items[j].id = view.items[i].key
                    /\ store'.todos.items[j].completed =
                           ~store.todos.items[j].completed]_vars

\* C22: the todo sequence is append-only: whatever action was dispatched,
\* the (id, text) pairs of the todos before it are a prefix of the pairs
\* after it; no record is deleted, moved, re-numbered or given another text.
C22_AppendOnly ==
    /\ Len(old) <= Len(new)
    /\ \A i \in 1..Len(old) : new[i].id = old[i].id /\ new[i].text = old[i].text

\* a toggle that hit the second of three todos, whose texts differ
C22_Witness ==
    /\ lastAction = toggleTodo(1)
    /\ Len(old) = 3
    /\ old[1].text # old[2].text
    /\ new[2].completed # old[2].completed
    /\ new[2].ref # old[2].ref

\* C23: in every snapshot reached by the actions the page dispatches the
\* visibilityFilter is SHOW_ALL, SHOW_ACTIVE or SHOW_COMPLETED, and the
\* selection VisibleTodoList ran on it returned a list: the unknown-filter
\* error is never raised.
C23_FilterInEnum ==
    /\ store.visibilityFilter \in Filters
    /\ vtl.state.visibilityFilter \in Filters
    /\ vtl.stateProps.todos.kind = "return"

\* a link was clicked while another filter than SHOW_ALL was in force, and
\* VisibleTodoList selected a non-empty list under the new filter
C23_Witness ==
    /\ lastAction = setVisibilityFilter("SHOW_COMPLETED")
    /\ prev.visibilityFilter = "SHOW_ACTIVE"
    /\ vtl.ran
    /\ vtl.state.ref = store.ref
    /\ Len(vis.items) > 0

\* what a view without any gate would show: the selection over the store's
\* snapshot, every item drawn from the store's record
Ungated == FieldsOf(getVisibleTodos(store.todos, store.visibilityFilter, 0).value.items)

\* C24: the gates never leave the display stale: after every dispatch the
\* displayed items are getVisibleTodos(state.todos, state.visibilityFilter)
\* in order, each showing the id, text and completed flag of the store's
\* record, as a view that redraws everything would.
C24_DisplayNeverStale ==
    /\ Len(view.items) = Len(Ungated)
    /\ \A i \in 1..Len(view.items) :
          /\ view.items[i].key = Ungated[i].id
          /\ Fields(view.items[i].drawn) = Ungated[i]

\* a toggle after which one mounted item was redrawn and another was not
C24_Witness ==
    /\ lastAction.type = "TOGGLE_TODO"
    /\ view.rendered
    /\ \E i \in Updates : view.decisions[i].redraw
    /\ \E i \in Updates : ~view.decisions[i].redraw
    /\ \E i \in 1..Len(view.items) : view.items[i].drawn.completed

\* C25: the link of the filter f is active exactly when f is the store's
\* visibilityFilter; an active link has no click handler, so the clicks on
\* links only dispatch SET_VISIBILITY_FILTER with a filter other than the
\* one in force, and right after such a dispatch the link of that filter
\* is the active one and the other links are inactive.
C25_ActiveLinkIsTheFilter ==
    /\ \A f \in Filters :
          /\ links[f].ownProps.filter = f
          /\ links[f].stateProps.active = (f = store.visibilityFilter)
          /\ links[f].stateProps.active => ~LinkHasOnClick(links[f].stateProps)
    /\ lastAction.type = "SET_VISIBILITY_FILTER" =>
          /\ lastAction.filter # prev.visibilityFilter
          /\ store.visibilityFilter = lastAction.filter
          /\ \A f \in Filters : links[f].stateProps.active = (f = lastAction.filter)

\* the link of SHOW_ACTIVE was clicked while SHOW_COMPLETED was in force:
\* these two links changed, the link of SHOW_ALL did not
C25_Witness ==
    /\ lastAction = setVisibilityFilter("SHOW_ACTIVE")
    /\ prev.visibilityFilter = "SHOW_COMPLETED"
    /\ links["SHOW_ACTIVE"].notified
    /\ links["SHOW_ACTIVE"].stateProps.active
    /\ links["SHOW_COMPLETED"].notified
    /\ ~links["SHOW_COMPLETED"].stateProps.active
    /\ ~links["SHOW_ALL"].notified

\* C26: for any snapshot S and any id, TOGGLE_TODO with that id applied
\* twice in a row gives a snapshot whose todos have the ids, texts and
\* completed flags of S's todos, in the same order, and whose filter is S's.
C26_ToggleTwiceRestores ==
    (dispatched = 2) =>
        /\ FieldsOf(store.todos.items) = FieldsOf(held.todos.items)
        /\ store.visibilityFilter = held.visibilityFilter

\* the second of several todos was toggled and toggled back under
\* SHOW_ACTIVE: its record is a new one with the flag it had
C26_Witness ==
    /\ dispatched = 2
    /\ lastAction = toggleTodo(1)
    /\ Len(held.todos.items) >= 2
    /\ held.visibilityFilter = "SHOW_ACTIVE"
    /\ old[2].completed # held.todos.items[2].completed
    /\ new[2].completed = held.todos.items[2].completed
    /\ new[2].ref # held.todos.items[2].ref

============================================================================
